---- MODULE Spec2Model ----
(***************************************************************************)
(* Model of neurophotonics/pipeline/fields.py: the DSim/ESim lookup        *)
(* tables, the computed tables DField/EField and their make methods, and   *)
(* the photon-transport engine (Space, imported from .space) they drive.   *)
(*                                                                         *)
(* Numbers.  Python floats are modelled on a binary grid: a float is an    *)
(* integer count of 1/FloatScale units, and every float operation rounds   *)
(* to the nearest grid point (ties to even).  decimal(5,2) columns are     *)
(* integer hundredths.  A float32 keeps only every Float32Step-th grid     *)
(* point.  The grids are far coarser than IEEE-754 but keep what the       *)
(* conversions do: they round, they are monotone, they are idempotent.     *)
(***************************************************************************)
EXTENDS Integers, Sequences, FiniteSets, TLC

(* ------------------------------ bounds -------------------------------- *)

\* float grid: units per 1.0
FloatScale == 4
\* a float32 is a multiple of this many float units
Float32Step == 2
\* number of make invocations explored
MaxCalls == 2
\* largest photon budget explored at the level of single walks
MaxHops == 3
\* voxels along the line the single-walk model follows
GridLen == 3

(* --------------------------- number helpers --------------------------- *)

One == FloatScale

\* n/d rounded to the nearest integer, ties to even (d > 0)
RoundDiv(n, d) ==
    LET q == n \div d
        r == n % d
    IN  IF 2 * r < d THEN q
        ELSE IF 2 * r > d THEN q + 1
        ELSE IF q % 2 = 0 THEN q ELSE q + 1

\* float(Decimal): hundredths to the nearest float
PyFloat(cents) == RoundDiv(cents * FloatScale, 100)

\* product of two floats
FMul(a, b) == RoundDiv(a * b, FloatScale)

\* np.float32(x) of one float
Float32(x) == RoundDiv(x, Float32Step) * Float32Step

\* np.float32(array)
Float32Arr(a) == [v \in DOMAIN a |-> Float32(a[v])]

Range(f) == {f[x] : x \in DOMAIN f}

\* ndarray.max()
ArrMax(a) == CHOOSE m \in Range(a) : \A x \in Range(a) : x <= m

(* --------------------------- lookup tables ---------------------------- *)

DKeys == {1, 2}
EKeys == {1}

\* a DSim row with the column defaults of the table definition
DSimDefault(k) ==
    [dsim |-> k,
     dsim_description |-> "detector",
     detector_type |-> "one-sided",
     detector_width |-> 1000,
     detector_height |-> 1000,
     anisotropy |-> One - 1,
     absorption_length |-> 14000 * One,
     scatter_length |-> 100 * One,
     volume_dimx |-> 1,
     volume_dimy |-> 1,
     volume_dimz |-> 2,
     pitch |-> 2 * One + 1]

DVariants == {"default", "small", "bad_anisotropy", "bad_length", "bad_dim", "bad_size"}

DSimRow(k, v) ==
    CASE v = "default" -> DSimDefault(k)
      [] v = "small" -> [DSimDefault(k) EXCEPT !.detector_width = 130,
                                                !.detector_height = 50,
                                                !.volume_dimz = 1]
      [] v = "bad_anisotropy" -> [DSimDefault(k) EXCEPT !.anisotropy = 2 * One]
      [] v = "bad_length" -> [DSimDefault(k) EXCEPT !.scatter_length = 0]
      [] v = "bad_dim" -> [DSimDefault(k) EXCEPT !.volume_dimy = 0]
      [] v = "bad_size" -> [DSimDefault(k) EXCEPT !.detector_width = -100]

\* an ESim row with the column defaults of the table definition
ESimDefault(k) ==
    [esim |-> k,
     esim_description |-> "emitter",
     beam_compression |-> One \div 2,
     y_steer |-> 0,
     emitter_width |-> 1000,
     emitter_height |-> 1000,
     anisotropy |-> One - 1,
     absorption_length |-> 14000 * One,
     scatter_length |-> 100 * One,
     volume_dimx |-> 1,
     volume_dimy |-> 1,
     volume_dimz |-> 2,
     beam_xy_aspect |-> One,
     pitch |-> 2 * One + 1]

EVariants == {"small", "bad_anisotropy"}

ESimRow(k, v) ==
    CASE v = "small" -> [ESimDefault(k) EXCEPT !.emitter_height = 130,
                                                !.volume_dimz = 1]
      [] v = "bad_anisotropy" -> [ESimDefault(k) EXCEPT !.anisotropy = -2 * One]

(* ------------------- the engine: Space (from .space) ------------------ *)

RecognizedOptions ==
    {"pitch", "anisotropy", "scatter_length", "absorption_length", "detector_type",
     "y_steer", "beam_compression", "beam_xy_aspect", "dims", "emitter_spread",
     "emitter_size"}

\* the options validation reads (anisotropy, the lengths, the dimensions, the
\* aperture size); every other recognized option has a default
RequiredOptions ==
    {"pitch", "anisotropy", "scatter_length", "absorption_length", "dims", "emitter_size"}

\* parameter validation at construction
SpaceValid(kw) ==
    /\ DOMAIN kw \subseteq RecognizedOptions
    /\ RequiredOptions \subseteq DOMAIN kw
    /\ kw.anisotropy >= -One /\ kw.anisotropy <= One
    /\ kw.pitch > 0 /\ kw.scatter_length > 0 /\ kw.absorption_length > 0
    /\ Len(kw.dims) = 3
    /\ \A i \in 1..3 : kw.dims[i] > 0
    /\ Len(kw.emitter_size) = 3
    /\ kw.emitter_size[1] >= 0 /\ kw.emitter_size[2] >= 0 /\ kw.emitter_size[3] = 0

\* the voxel indices of a grid of shape dims
Voxels(dims) == (1..dims[1]) \X (1..dims[2]) \X (1..dims[3])

\* a new engine: empty grid, nothing counted.  runs and sources record which
\* invocations of run have deposited into the grid.
SpaceInit(kw) ==
    [kwargs |-> kw,
     raw |-> [v \in Voxels(kw.dims) |-> 0],
     total_count |-> 0,
     runs |-> 0,
     sources |-> {}]

\* mean deposit per walk that one run may leave in a voxel
DepositVals == {0, One - 1}

\* run(hops) by caller c: hops walks complete, each adding its path to the grid;
\* d is the mean deposit per walk and voxel of this run
SpaceRun(sp, hops, d, c) ==
    [sp EXCEPT !.raw = [v \in DOMAIN sp.raw |-> sp.raw[v] + hops * d[v]],
               !.total_count = sp.total_count + hops,
               !.sources = sp.sources \cup {c}]

\* Space.volume: the accumulation normalised by the number of walks
SpaceVolume(sp) ==
    [v \in DOMAIN sp.raw |->
        IF sp.total_count = 0 THEN 0 ELSE RoundDiv(sp.raw[v], sp.total_count)]

\* Space.emitter_area: aperture width times height
EmitterArea(sp) == FMul(sp.kwargs.emitter_size[1], sp.kwargs.emitter_size[2])

(* ----------------------------- DField.make ---------------------------- *)

\* a budget with a digit dropped
DFieldHopsShort == 500000 \div 10

\* hops of space.run(hops=500_000) in DField.make and in EField.make
DFieldHops == 500000
EFieldHops == 500000

DFieldScalars == {"pitch", "anisotropy", "scatter_length", "absorption_length", "detector_type"}

\* kwargs that start from the whole row instead of the filtered columns
DFieldKwargsAll(row) ==
    [dims |-> <<row.volume_dimx, row.volume_dimy, row.volume_dimz>>,
     emitter_spread |-> "spherical",
     emitter_size |-> <<PyFloat(row.detector_width), PyFloat(row.detector_height), 0>>]
    @@ row

\* kwargs of DField.make: the comprehension, then kwargs.update(...)
DFieldKwargs(row) ==
    [dims |-> <<row.volume_dimx, row.volume_dimy, row.volume_dimz>>,
     emitter_spread |-> "spherical",
     emitter_size |-> <<PyFloat(row.detector_width), PyFloat(row.detector_height), 0>>]
    @@ [k \in (DOMAIN row) \cap DFieldScalars |-> row[k]]

\* a row whose volume is not scaled by emitter_area
DFieldRowUnscaled(key, sp) ==
    [volume |-> Float32Arr(SpaceVolume(sp)),
     max_value |-> ArrMax(SpaceVolume(sp)),
     total_photons |-> sp.total_count] @@ key

\* a row whose max_value is taken from the engine's volume, before the scaling
DFieldRowRawMax(key, sp) ==
    LET volume == [v \in DOMAIN sp.raw |-> FMul(SpaceVolume(sp)[v], EmitterArea(sp))]
    IN  [volume |-> Float32Arr(volume),
         max_value |-> ArrMax(SpaceVolume(sp)),
         total_photons |-> sp.total_count] @@ key

\* the dict DField.make hands to insert1
DFieldRow(key, sp) ==
    LET volume == [v \in DOMAIN sp.raw |-> FMul(SpaceVolume(sp)[v], EmitterArea(sp))]
    IN  [volume |-> Float32Arr(volume),
         max_value |-> ArrMax(volume),
         total_photons |-> sp.total_count] @@ key

(* ----------------------------- EField.make ---------------------------- *)

EFieldScalars ==
    {"pitch", "anisotropy", "scatter_length", "y_steer", "beam_compression",
     "beam_xy_aspect", "absorption_length"}

\* kwargs whose comprehension misses beam_xy_aspect
EFieldKwargsNoAspect(row) ==
    [dims |-> <<row.volume_dimx, row.volume_dimy, row.volume_dimz>>,
     emitter_size |-> <<PyFloat(row.emitter_width), PyFloat(row.emitter_height), 0>>]
    @@ [k \in (DOMAIN row) \cap (EFieldScalars \ {"beam_xy_aspect"}) |-> row[k]]

\* kwargs of EField.make: the comprehension, then kwargs.update(...)
EFieldKwargs(row) ==
    [dims |-> <<row.volume_dimx, row.volume_dimy, row.volume_dimz>>,
     emitter_size |-> <<PyFloat(row.emitter_width), PyFloat(row.emitter_height), 0>>]
    @@ [k \in (DOMAIN row) \cap EFieldScalars |-> row[k]]

\* the dict EField.make hands to insert1
EFieldRow(key, sp) ==
    [volume |-> Float32Arr(SpaceVolume(sp)),
     total_photons |-> sp.total_count] @@ key

(* ------------------------------- state -------------------------------- *)

VARIABLES
    DSim, ESim,        \* lookup tables: key -> row
    DField, EField,    \* computed tables: sets of rows
    pc, job, spec, kwargs, space, err,   \* per make invocation
    spaces,            \* the engine instances constructed so far
    log,               \* per make invocation: its I/O and engine events, in order
    prov,              \* per stored row: the invocations whose photons its volume holds
    wPhase, wHops, wCount, photon, wPos, wEnds, wScattered   \* one run, walk by walk

makeVars == <<DSim, ESim, DField, EField, pc, job, spec, kwargs, space, err, spaces, log, prov>>
walkVars == <<wPhase, wHops, wCount, photon, wPos, wEnds, wScattered>>
vars == <<DSim, ESim, DField, EField, pc, job, spec, kwargs, space, err, spaces, log, prov,
          wPhase, wHops, wCount, photon, wPos, wEnds, wScattered>>

Calls == 1..MaxCalls

NoJob == [table |-> "none", key |-> 0]
NoRow == [none |-> TRUE]

MakeInit ==
    /\ pc = [c \in Calls |-> "idle"]
    /\ job = [c \in Calls |-> NoJob]
    /\ spec = [c \in Calls |-> NoRow]
    /\ kwargs = [c \in Calls |-> NoRow]
    /\ space = [c \in Calls |-> 0]
    /\ err = [c \in Calls |-> "none"]
    /\ spaces = <<>>
    /\ log = [c \in Calls |-> <<>>]
    /\ prov = {}
    /\ DField = {}
    /\ EField = {}

WalkIdle ==
    /\ wPhase = "idle"
    /\ wHops = 0
    /\ wCount = 0
    /\ photon = "none"
    /\ wPos = 0
    /\ wEnds = {}
    /\ wScattered = FALSE

Init ==
    /\ \E v \in DVariants :
          DSim = [k \in DKeys |-> DSimRow(k, IF k = 1 THEN v ELSE "small")]
    /\ \E v \in EVariants : ESim = [k \in EKeys |-> ESimRow(k, v)]
    /\ MakeInit
    /\ WalkIdle

(* ------------------------ the steps of make --------------------------- *)

\* spec = (DSim & key).fetch1()   /   spec = (ESim & key).fetch1()
\* (invocations are numbered in the order in which they start)
Fetch1(c, t, k) ==
    /\ pc[c] = "idle"
    /\ \A b \in Calls : b < c => pc[b] /= "idle"
    /\ \/ t = "DField" /\ k \in DOMAIN DSim /\ spec' = [spec EXCEPT ![c] = DSim[k]]
       \/ t = "EField" /\ k \in DOMAIN ESim /\ spec' = [spec EXCEPT ![c] = ESim[k]]
    /\ job' = [job EXCEPT ![c] = [table |-> t, key |-> k]]
    /\ log' = [log EXCEPT ![c] = Append(@, "fetch1")]
    /\ pc' = [pc EXCEPT ![c] = "fetched"]
    /\ UNCHANGED <<DSim, ESim, DField, EField, kwargs, space, err, spaces, prov>>
    /\ UNCHANGED walkVars

\* the keyword arguments the invocation builds from the fetched row
MakeKwargs(c) ==
    IF job[c].table = "DField" THEN DFieldKwargs(spec[c]) ELSE EFieldKwargs(spec[c])

\* a make that catches the constructor's error and goes on
SpaceOutcomeSwallowed(kw) == "constructed"

\* Space(**kwargs) inside make: an error raised by the constructor leaves make
\* (no handler), otherwise make goes on with the new instance
SpaceOutcome(kw) == IF SpaceValid(kw) THEN "constructed" ELSE "failed"

\* one engine kept at module level and handed to every make
SharedSpace(all, kw) == IF all = <<>> THEN <<SpaceInit(kw)>> ELSE all

\* space = Space(**kwargs): the instances after the call; the new one is the last
NewSpace(all, kw) == Append(all, SpaceInit(kw))

\* kwargs = {...}; kwargs.update(...); space = Space(**kwargs)
Construct(c) ==
    /\ pc[c] = "fetched"
    /\ LET kw == MakeKwargs(c)
       IN  /\ kwargs' = [kwargs EXCEPT ![c] = kw]
           /\ log' = [log EXCEPT ![c] = Append(@, "Space")]
           /\ pc' = [pc EXCEPT ![c] = SpaceOutcome(kw)]
           /\ IF SpaceOutcome(kw) = "constructed"
              THEN /\ spaces' = NewSpace(spaces, kw)
                   /\ space' = [space EXCEPT ![c] = Len(spaces')]
                   /\ err' = err
              ELSE /\ err' = [err EXCEPT ![c] = "InvalidParameter"]
                   /\ UNCHANGED <<spaces, space>>
    /\ UNCHANGED <<DSim, ESim, DField, EField, job, spec, prov>>
    /\ UNCHANGED walkVars

\* the photon budget make passes to run
MakeHops(c) == IF job[c].table = "DField" THEN DFieldHops ELSE EFieldHops

\* space.run(hops=500_000) is entered
RunStart(c) ==
    /\ pc[c] = "constructed"
    /\ spaces' = [spaces EXCEPT ![space[c]].runs = @ + 1]
    /\ log' = [log EXCEPT ![c] = Append(@, "run_start")]
    /\ pc' = [pc EXCEPT ![c] = "running"]
    /\ UNCHANGED <<DSim, ESim, DField, EField, job, spec, kwargs, space, err, prov>>
    /\ UNCHANGED walkVars

\* space.run(hops=500_000) returns
RunEnd(c) ==
    /\ pc[c] = "running"
    /\ \E d \in [DOMAIN spaces[space[c]].raw -> DepositVals] :
          spaces' = [spaces EXCEPT ![space[c]] = SpaceRun(@, MakeHops(c), d, c)]
    /\ log' = [log EXCEPT ![c] = Append(@, "run_end")]
    /\ pc' = [pc EXCEPT ![c] = "ran"]
    /\ UNCHANGED <<DSim, ESim, DField, EField, job, spec, kwargs, space, err, prov>>
    /\ UNCHANGED walkVars

\* the primary key make was called with
MakeKey(c) ==
    IF job[c].table = "DField" THEN [dsim |-> job[c].key] ELSE [esim |-> job[c].key]

\* the dict make hands to insert1
MakeRow(c) ==
    IF job[c].table = "DField"
    THEN DFieldRow(MakeKey(c), spaces[space[c]])
    ELSE EFieldRow(MakeKey(c), spaces[space[c]])

\* insert1 finds a row with the same primary key and raises
Duplicate(tbl, row, pk) == \E r \in tbl : r[pk] = row[pk]

\* insert1(row, replace=True): the table afterwards
Insert1Replace(tbl, row, pk) == {r \in tbl : r[pk] /= row[pk]} \cup {row}

\* self.insert1(row): the table afterwards
Insert1(tbl, row, pk) == IF Duplicate(tbl, row, pk) THEN tbl ELSE tbl \cup {row}

\* volume = ...; self.insert1(dict(key, ...)), placed where make is at `at`
InsertAt(c, at) ==
    /\ pc[c] = at
    /\ LET row == MakeRow(c)
           pk == IF job[c].table = "DField" THEN "dsim" ELSE "esim"
           tbl == IF job[c].table = "DField" THEN DField ELSE EField
       IN  /\ IF job[c].table = "DField"
              THEN DField' = Insert1(DField, row, pk) /\ EField' = EField
              ELSE EField' = Insert1(EField, row, pk) /\ DField' = DField
           /\ IF Duplicate(tbl, row, pk)
              THEN /\ pc' = [pc EXCEPT ![c] = "failed"]
                   /\ err' = [err EXCEPT ![c] = "DuplicateError"]
                   /\ prov' = prov
              ELSE /\ pc' = [pc EXCEPT ![c] = "done"]
                   /\ err' = err
                   /\ prov' = prov \cup {[table |-> job[c].table, key |-> job[c].key,
                                          sources |-> spaces[space[c]].sources]}
    /\ log' = [log EXCEPT ![c] = Append(@, "insert1")]
    /\ UNCHANGED <<DSim, ESim, job, spec, kwargs, space, spaces>>
    /\ UNCHANGED walkVars

\* a variant of make that inserts before it calls run
InsertBeforeRun(c) == InsertAt(c, "constructed")

\* make inserts once run has returned
Insert(c) == InsertAt(c, "ran")

Next ==
    \/ \E c \in Calls, k \in DKeys : Fetch1(c, "DField", k)
    \/ \E c \in Calls, k \in EKeys : Fetch1(c, "EField", k)
    \/ \E c \in Calls : Construct(c)
    \/ \E c \in Calls : RunStart(c)
    \/ \E c \in Calls : RunEnd(c)
    \/ \E c \in Calls : Insert(c)

Spec == Init /\ [][Next]_vars

(* ---------------- one run of the engine, walk by walk ------------------ *)
(* The photon moves along a line of GridLen voxels, 1..GridLen; the        *)
(* aperture sits at the centre.  photon is the state of the walk in        *)
(* progress: Launched, Scattering, Absorbed, Exited, Terminated.           *)

Centre == (GridLen + 1) \div 2

InFlight == {"Launched", "Scattering"}
Ended == {"Absorbed", "Exited"}

\* run(hops) is called on a new engine
WalkInit ==
    /\ DSim = [k \in DKeys |-> DSimRow(k, "default")]
    /\ ESim = [k \in EKeys |-> ESimRow(k, "small")]
    /\ MakeInit
    /\ wPhase = "running"
    /\ wHops \in 1..MaxHops
    /\ wCount = 0
    /\ photon = "none"
    /\ wPos = 0
    /\ wEnds = {}
    /\ wScattered = FALSE

\* a loop test that lets one walk too many through
BudgetLeftOffByOne == wCount <= wHops

\* the loop of run goes on while the budget is not used up
BudgetLeft == wCount < wHops

\* the emitter samples the initial state of the next walk
WLaunch ==
    /\ wPhase = "running"
    /\ photon \in {"none", "Terminated"}
    /\ BudgetLeft
    /\ photon' = "Launched"
    /\ wPos' = Centre
    /\ UNCHANGED <<wPhase, wHops, wCount, wEnds, wScattered>>
    /\ UNCHANGED makeVars

\* a free path ends inside the grid in a scattering event
WScatter(p) ==
    /\ photon \in InFlight
    /\ p \in 1..GridLen
    /\ photon' = "Scattering"
    /\ wPos' = p
    /\ wScattered' = TRUE
    /\ UNCHANGED <<wPhase, wHops, wCount, wEnds>>
    /\ UNCHANGED makeVars

\* a free path ends inside the grid in an absorption event
WAbsorb(p) ==
    /\ photon \in InFlight
    /\ p \in 1..GridLen
    /\ photon' = "Absorbed"
    /\ wPos' = p
    /\ UNCHANGED <<wPhase, wHops, wCount, wEnds, wScattered>>
    /\ UNCHANGED makeVars

\* a free path leaves the grid
WExit ==
    /\ photon \in InFlight
    /\ photon' = "Exited"
    /\ wPos' = 0
    /\ UNCHANGED <<wPhase, wHops, wCount, wEnds, wScattered>>
    /\ UNCHANGED makeVars

\* the total after a walk has ended
CountWalk(n) == n + 1

\* the walk is over: the photon is destroyed and counted
WTerminate ==
    /\ photon \in Ended
    /\ photon' = "Terminated"
    /\ wPos' = 0
    /\ wCount' = CountWalk(wCount)
    /\ wEnds' = wEnds \cup {photon}
    /\ UNCHANGED <<wPhase, wHops, wScattered>>
    /\ UNCHANGED makeVars

\* the budget is used up: run returns
WReturn ==
    /\ wPhase = "running"
    /\ photon \in {"none", "Terminated"}
    /\ ~BudgetLeft
    /\ wPhase' = "returned"
    /\ UNCHANGED <<wHops, wCount, photon, wPos, wEnds, wScattered>>
    /\ UNCHANGED makeVars

WEnd == WExit \/ \E p \in 1..GridLen : WAbsorb(p)

WalkNext ==
    \/ WLaunch
    \/ \E p \in 1..GridLen : WScatter(p)
    \/ \E p \in 1..GridLen : WAbsorb(p)
    \/ WExit
    \/ WTerminate
    \/ WReturn

\* run is a plain loop that nothing suspends, and a walk in flight ends with
\* probability one: absorption and exit have non-zero probability at every step
WalkSpec ==
    /\ WalkInit
    /\ [][WalkNext]_vars
    /\ WF_vars(WLaunch)
    /\ WF_vars(WEnd)
    /\ WF_vars(WTerminate)
    /\ WF_vars(WReturn)

(* ------------------------------ claims -------------------------------- *)

\* the invocation has built its kwargs and called the constructor
Built(c) == pc[c] \notin {"idle", "fetched"}

IsD(c) == job[c].table = "DField"
IsE(c) == job[c].table = "EField"

\* the row a successful invocation inserted
StoredRow(c) ==
    IF IsD(c) THEN CHOOSE r \in DField : r.dsim = job[c].key
              ELSE CHOOSE r \in EField : r.esim = job[c].key

\* the engine instance an invocation constructed
Engine(c) == spaces[space[c]]

\* C1: every row make inserts holds total_photons = 500000, the budget passed to
\* run, and that is the total_count of the engine make ran, i.e. the number of
\* walks it completed.
C1_TotalPhotonsIsBudget ==
    /\ \A r \in DField : r.total_photons = 500000
    /\ \A r \in EField : r.total_photons = 500000
    /\ \A c \in Calls : pc[c] = "done" =>
          /\ StoredRow(c).total_photons = Engine(c).total_count
          /\ Engine(c).total_count = Engine(c).runs * 500000

C1_Witness == DField /= {} /\ EField /= {}

\* C2: DField.make stores the engine's volume times emitter_area, voxel by voxel
\* (cast to float32 on the way into the row), and max_value is the maximum of
\* that scaled volume; EField.make stores the engine's volume without the
\* scaling (cast to float32) and no max_value.
C2_StoredVolume ==
    \A c \in Calls : pc[c] = "done" =>
        LET vol == SpaceVolume(Engine(c))
            size == kwargs[c].emitter_size
            area == FMul(size[1], size[2])
            row == StoredRow(c)
        IN  /\ DOMAIN row.volume = Voxels(kwargs[c].dims)
            /\ IsD(c) =>
                  /\ \A v \in DOMAIN vol : row.volume[v] = Float32(FMul(vol[v], area))
                  /\ \A v \in DOMAIN vol : row.max_value >= FMul(vol[v], area)
                  /\ \E v \in DOMAIN vol : row.max_value = FMul(vol[v], area)
            /\ IsE(c) =>
                  /\ \A v \in DOMAIN vol : row.volume[v] = Float32(vol[v])
                  /\ "max_value" \notin DOMAIN row

C2_Witness ==
    \E c1, c2 \in Calls :
        /\ pc[c1] = "done" /\ IsD(c1) /\ pc[c2] = "done" /\ IsE(c2)
        /\ EmitterArea(Engine(c1)) /= One
        /\ EmitterArea(Engine(c2)) /= One
        /\ StoredRow(c1).max_value > 0
        /\ \E v \in DOMAIN StoredRow(c2).volume :
              /\ StoredRow(c2).volume[v] > 0
              /\ StoredRow(c2).volume[v] = Float32(SpaceVolume(Engine(c2))[v])

C4_DFieldKwargs ==
    \A c \in Calls : Built(c) /\ IsD(c) =>
        LET row == DSim[job[c].key]
            kw == kwargs[c]
        IN  /\ DOMAIN kw = {"pitch", "anisotropy", "scatter_length", "absorption_length",
                            "detector_type", "dims", "emitter_spread", "emitter_size"}
            /\ \A k \in {"pitch", "anisotropy", "scatter_length", "absorption_length",
                         "detector_type"} : kw[k] = row[k]
            /\ kw.dims = <<row.volume_dimx, row.volume_dimy, row.volume_dimz>>
            /\ kw.emitter_spread = "spherical"
            /\ kw.emitter_size = <<PyFloat(row.detector_width), PyFloat(row.detector_height), 0>>
            /\ DOMAIN kw \subseteq RecognizedOptions
            /\ RequiredOptions \subseteq DOMAIN kw

C4_Witness ==
    \E c \in Calls :
        /\ Built(c) /\ IsD(c)
        /\ spec[c].detector_width = 130
        /\ kwargs[c].emitter_size[1] * 100 /= 130 * FloatScale
        /\ kwargs[c].dims = <<1, 1, 1>>

\* C5 as stated: EField.make passes every option listed for the emitter variant,
\* emitter_spread among them.
C5_Original ==
    \A c \in Calls : Built(c) /\ IsE(c) =>
        DOMAIN kwargs[c] = {"pitch", "anisotropy", "scatter_length", "absorption_length",
                            "y_steer", "beam_compression", "beam_xy_aspect", "dims",
                            "emitter_spread", "emitter_size"}

\* C5 amended: for an ESim row, EField.make calls the constructor with exactly
\* the nine keywords pitch, anisotropy, scatter_length, absorption_length,
\* y_steer, beam_compression, beam_xy_aspect, dims, emitter_size, and does not
\* pass emitter_spread; the scalars are the row's values, dims is (volume_dimx,
\* volume_dimy, volume_dimz), emitter_size is (float(emitter_width),
\* float(emitter_height), 0); every keyword passed is recognized and the options
\* validation reads are all present.
C5_EFieldKwargs ==
    \A c \in Calls : Built(c) /\ IsE(c) =>
        LET row == ESim[job[c].key]
            kw == kwargs[c]
        IN  /\ DOMAIN kw = {"pitch", "anisotropy", "scatter_length", "absorption_length",
                            "y_steer", "beam_compression", "beam_xy_aspect", "dims",
                            "emitter_size"}
            /\ \A k \in {"pitch", "anisotropy", "scatter_length", "absorption_length",
                         "y_steer", "beam_compression", "beam_xy_aspect"} : kw[k] = row[k]
            /\ kw.dims = <<row.volume_dimx, row.volume_dimy, row.volume_dimz>>
            /\ kw.emitter_size = <<PyFloat(row.emitter_width), PyFloat(row.emitter_height), 0>>
            /\ DOMAIN kw \subseteq RecognizedOptions
            /\ RequiredOptions \subseteq DOMAIN kw

C5_Witness ==
    \E c \in Calls :
        /\ pc[c] = "done" /\ IsE(c)
        /\ "emitter_spread" \notin DOMAIN kwargs[c]
        /\ spec[c].emitter_height = 130

\* the positions of event e in the log of an invocation
At(c, e) == {i \in 1..Len(log[c]) : log[c][i] = e}

\* C6: in every invocation of make, fetch1 comes before the constructor and
\* before run starts, insert1 comes only after run has returned, and neither
\* fetch1 nor insert1 falls between the start and the end of run.
C6_IOOutsideRun ==
    \A c \in Calls :
        /\ \A i \in At(c, "fetch1"), j \in At(c, "Space") \cup At(c, "run_start") : i < j
        /\ \A i \in At(c, "insert1") : \E j \in At(c, "run_end") : j < i
        /\ \A i \in At(c, "run_start"), j \in At(c, "fetch1") \cup At(c, "insert1") :
              i < j => \E m \in At(c, "run_end") : i < m /\ m < j
        /\ \A j \in At(c, "Space") \cup At(c, "run_start") : At(c, "fetch1") /= {}
        /\ pc[c] = "running" => log[c][Len(log[c])] = "run_start"

C6_Witness ==
    \E c1, c2 \in Calls :
        /\ log[c1] = <<"fetch1", "Space", "run_start", "run_end", "insert1">>
        /\ pc[c2] = "running"

\* the lookup row an invocation works on does not pass validation
InvalidRow(t, k) ==
    IF t = "DField" THEN ~SpaceValid(DFieldKwargs(DSim[k]))
                    ELSE ~SpaceValid(EFieldKwargs(ESim[k]))

\* C7: for an invalid parameter row the error is raised at construction: make
\* ends there, run is not invoked, the constructor is called once, insert1 is
\* not reached and the computed table holds no row for the key.
C7_InvalidParameterIsFatal ==
    \A c \in Calls : Built(c) /\ InvalidRow(job[c].table, job[c].key) =>
        /\ pc[c] = "failed"
        /\ err[c] = "InvalidParameter"
        /\ space[c] = 0
        /\ log[c] = <<"fetch1", "Space">>
        /\ IsD(c) => \A r \in DField : r.dsim /= job[c].key
        /\ IsE(c) => \A r \in EField : r.esim /= job[c].key

C7_Witness ==
    \E c1, c2 \in Calls :
        /\ IsD(c1) /\ err[c1] = "InvalidParameter"
        /\ IsE(c2) /\ err[c2] = "InvalidParameter"
        /\ spaces = <<>>

\* C9: every invocation of make constructs an engine of its own and runs it
\* once: no two invocations hold the same instance, no instance is run twice,
\* and the volume of a stored row holds only the photons of the run of the
\* invocation that stored it.
C9_FreshEnginePerMake ==
    /\ \A c1, c2 \in Calls : c1 /= c2 /\ space[c1] /= 0 => space[c1] /= space[c2]
    /\ \A i \in DOMAIN spaces :
          /\ spaces[i].runs <= 1
          /\ \A c \in spaces[i].sources : space[c] = i
    /\ \A p \in prov :
          /\ Cardinality(p.sources) = 1
          /\ \A c \in p.sources : job[c] = [table |-> p.table, key |-> p.key]

C9_Witness ==
    \E c1, c2 \in Calls :
        /\ pc[c1] = "done" /\ pc[c2] = "done"
        /\ job[c1] /= job[c2]
        /\ Cardinality(prov) = 2

\* the step completes a make successfully
Succeeds(c) == pc[c] /= "done" /\ pc'[c] = "done"

\* what one step may do to the tables
C10_InsertFrameStep ==
    /\ DSim' = DSim
    /\ ESim' = ESim
    /\ \A c \in Calls : Succeeds(c) /\ IsD(c) =>
          /\ EField' = EField
          /\ \A r \in DField : r.dsim /= job[c].key
          /\ \E r \in DField' :
                /\ DField' = DField \cup {r}
                /\ r.dsim = job[c].key
                /\ DOMAIN r = {"dsim", "volume", "max_value", "total_photons"}
    /\ \A c \in Calls : Succeeds(c) /\ IsE(c) =>
          /\ DField' = DField
          /\ \A r \in EField : r.esim /= job[c].key
          /\ \E r \in EField' :
                /\ EField' = EField \cup {r}
                /\ r.esim = job[c].key
                /\ DOMAIN r = {"esim", "volume", "total_photons"}
    /\ (\A c \in Calls : ~Succeeds(c)) => DField' = DField /\ EField' = EField

\* C10: a successful make adds exactly one row to its table, with the key it
\* was called with and no attributes but the key, volume, total_photons (and
\* max_value in DField); the rows already there, the other computed table and
\* both lookup tables stay as they are, and no other step changes a table.
C10_InsertFrame == [][C10_InsertFrameStep]_vars

C10_Witness ==
    /\ Cardinality(DField) = 2
    /\ \A c \in Calls : pc[c] = "done" /\ IsD(c)

\* the changes of state a photon may go through; Terminated to Launched is the
\* launch of the next photon
WalkEdges ==
    {<<"none", "Launched">>,
     <<"Launched", "Scattering">>, <<"Launched", "Absorbed">>, <<"Launched", "Exited">>,
     <<"Scattering", "Absorbed">>, <<"Scattering", "Exited">>,
     <<"Absorbed", "Terminated">>, <<"Exited", "Terminated">>,
     <<"Terminated", "Launched">>}

\* one step of a walk: the photon follows the state machine, a walk is counted
\* exactly when its photon terminates, and a terminated photon only gives way
\* to the launch of the next one
C8_WalkStep ==
    /\ photon' /= photon => <<photon, photon'>> \in WalkEdges
    /\ wCount' = wCount + (IF photon \in Ended /\ photon' = "Terminated" THEN 1 ELSE 0)
    /\ photon = "Terminated" /\ photon' /= photon => wCount' = wCount /\ wCount < wHops
    /\ wPhase = "returned" => photon' = photon /\ wPhase' = wPhase

\* C8: every walk run starts goes Launched -> Scattering* -> Absorbed or Exited
\* -> Terminated and takes no step after that; every walk in flight terminates;
\* run returns, and when it has returned exactly hops walks have terminated.
C8_WalkStateMachine ==
    /\ [][C8_WalkStep]_vars
    /\ [](wPhase = "returned" => wCount = wHops /\ photon = "Terminated")
    /\ [](wCount <= wHops)
    /\ (photon \in InFlight) ~> (photon = "Terminated")
    /\ <>(wPhase = "returned")

C8_Witness ==
    /\ wPhase = "returned"
    /\ wCount = MaxHops
    /\ wEnds = Ended
    /\ wScattered

====
